---- MODULE Spec2Model ----
(***************************************************************************)
(* Model of download-cfr/analyze_ecfr.py: the structure indexer            *)
(* (build_structure_dict) and the per-reference resolver                   *)
(* (process_agency_cfr_references) with its diagnostics log and its title  *)
(* cache.                                                                  *)
(*                                                                         *)
(* Python values are represented as follows.                               *)
(*   None             the string None (an absent key read with .get)       *)
(*   dict             a function whose DOMAIN is the set of keys           *)
(*   list             a sequence                                           *)
(*   ref['title']     a record [kind, val]; kind = "int" iff the Python    *)
(*                    value is an int (isinstance(title, int))             *)
(*   fetches          per title, the number of fetch_title_structure calls *)
(*   RawNode          a record [type, identifier, size, reserved,          *)
(*                    children]; every modelled node carries a size, so    *)
(*                    the .get('size', 0) default is never taken           *)
(* The diagnostics table cfr_reference_errors is the sequence errors; the  *)
(* INSERT is assumed to succeed and the timestamp column is left out.      *)
(***************************************************************************)
EXTENDS Integers, Sequences, FiniteSets, TLC

VARIABLES raw, title_structures, ref, word_count, errors, n, pc,
          fetches, titles, agencies, stack, results, ancestors, attempt, requests,
          slept, retries, outcomes, response

vars == <<raw, title_structures, ref, word_count, errors, n, pc,
          fetches, titles, agencies, stack, results, ancestors, attempt, requests,
          slept, retries, outcomes, response>>

\* The variables of the run over the agencies (process_agency_and_children).
runVars == <<titles, agencies, stack, results>>

\* The variables of parse_ancestry and of fetch_with_retries.
otherVars == <<ancestors, attempt, requests, slept, retries, outcomes, response>>

\* Number of references one call of process_agency_cfr_references consumes.
MaxRefs == 1

None == "None"

\* Python truthiness of an identifier: None and the empty string are falsy.
Truthy(x) == x # None /\ x # ""

EmptyDict == [k \in {} |-> 0]

\* d[k] = v on a dict
DictSet(d, k, v) == [x \in (DOMAIN d) \cup {k} |-> IF x = k THEN v ELSE d[x]]

Node(t, id, sz, res, kids) ==
    [type |-> t, identifier |-> id, size |-> sz, reserved |-> res, children |-> kids]

(***************************************************************************)
(* build_structure_dict                                                    *)
(***************************************************************************)

\* for part in subchapter.get('children', []): ...
RECURSIVE PartLoop(_, _, _, _)
PartLoop(chapter_dict, subchapter_id, kids, i) ==
    IF i > Len(kids) THEN chapter_dict
    ELSE LET part == kids[i] IN
         IF part.type # "part" \/ part.reserved
         THEN PartLoop(chapter_dict, subchapter_id, kids, i + 1)
         ELSE LET part_id == part.identifier
                  part_size == part.size
                  cd == IF Truthy(subchapter_id)
                        THEN [chapter_dict EXCEPT
                                !.subchapters[subchapter_id].parts =
                                    DictSet(@, part_id, part_size)]
                        ELSE [chapter_dict EXCEPT
                                !.parts = DictSet(@, part_id, part_size)]
              IN PartLoop(cd, subchapter_id, kids, i + 1)

\* for subchapter in chapter.get('children', []): ...
RECURSIVE SubchapterLoop(_, _, _)
SubchapterLoop(chapter_dict, kids, i) ==
    IF i > Len(kids) THEN chapter_dict
    ELSE LET subchapter == kids[i]
             subchapter_id == subchapter.identifier
             cd == IF Truthy(subchapter_id)
                   THEN [chapter_dict EXCEPT
                           !.subchapters = DictSet(@, subchapter_id,
                               [size |-> subchapter.size, parts |-> EmptyDict])]
                   ELSE chapter_dict
         IN SubchapterLoop(PartLoop(cd, subchapter_id, subchapter.children, 1),
                           kids, i + 1)

\* chapter_dict = {'size': ..., 'subchapters': {}, 'parts': {}} and its loops
ChapterDict(chapter) ==
    SubchapterLoop([size |-> chapter.size, subchapters |-> EmptyDict,
                    parts |-> EmptyDict], chapter.children, 1)

\* for chapter in item.get('children', []): ...   (subtitle branch)
RECURSIVE ChapterLoop(_, _, _)
ChapterLoop(subtitle_dict, kids, i) ==
    IF i > Len(kids) THEN subtitle_dict
    ELSE LET chapter == kids[i]
             chapter_id == chapter.identifier
         IN IF chapter.type # "chapter" \/ ~Truthy(chapter_id)
            THEN ChapterLoop(subtitle_dict, kids, i + 1)
            ELSE ChapterLoop([subtitle_dict EXCEPT
                                !.chapters = DictSet(@, chapter_id, ChapterDict(chapter))],
                             kids, i + 1)

\* for item in structure.get('children', []): ...
RECURSIVE ItemLoop(_, _, _)
ItemLoop(title_dict, kids, i) ==
    IF i > Len(kids) THEN title_dict
    ELSE LET item == kids[i]
             item_type == item.type
             item_id == item.identifier
         IN IF ~Truthy(item_id) THEN ItemLoop(title_dict, kids, i + 1)
            ELSE IF item_type = "subtitle"
            THEN ItemLoop([title_dict EXCEPT
                             !.subtitles = DictSet(@, item_id,
                                 ChapterLoop([size |-> item.size, chapters |-> EmptyDict],
                                             item.children, 1))],
                          kids, i + 1)
            ELSE IF item_type = "chapter"
            THEN ItemLoop([title_dict EXCEPT
                             !.chapters = DictSet(@, item_id, ChapterDict(item))],
                          kids, i + 1)
            ELSE ItemLoop(title_dict, kids, i + 1)

build_structure_dict(structure) ==
    ItemLoop([subtitles |-> EmptyDict, chapters |-> EmptyDict], structure.children, 1)

(***************************************************************************)
(* process_agency_cfr_references: one iteration of the loop over the       *)
(* references, after the title check and the cache lookup.                 *)
(***************************************************************************)

Outcome(size, msgs) == [add |-> size, msgs |-> msgs]

\* PartInChapter looking in the chapter's own part map first.
PartInChapter_ChapterFirst(chapter_data, subchapter, part) ==
    IF part \in DOMAIN chapter_data.parts
    THEN [found |-> TRUE, size |-> chapter_data.parts[part]]
    ELSE IF Truthy(subchapter) /\ subchapter \in DOMAIN chapter_data.subchapters
            /\ part \in DOMAIN chapter_data.subchapters[subchapter].parts
    THEN [found |-> TRUE, size |-> chapter_data.subchapters[subchapter].parts[part]]
    ELSE [found |-> FALSE, size |-> 0]

\* The two lookups made on one chapter_data for a reference naming a part:
\* the named subchapter's part map, then the chapter's own part map.
PartInChapter(chapter_data, subchapter, part) ==
    IF Truthy(subchapter) /\ subchapter \in DOMAIN chapter_data.subchapters
       /\ part \in DOMAIN chapter_data.subchapters[subchapter].parts
    THEN [found |-> TRUE, size |-> chapter_data.subchapters[subchapter].parts[part]]
    ELSE IF part \in DOMAIN chapter_data.parts
    THEN [found |-> TRUE, size |-> chapter_data.parts[part]]
    ELSE [found |-> FALSE, size |-> 0]

\* ResolvePart degrading to the subtitle-scoped chapter when the part is
\* found on no path.
ResolvePart_Degrade(structure, r) ==
    LET underSubtitle ==
            IF Truthy(r.subtitle) /\ Truthy(r.chapter)
               /\ r.subtitle \in DOMAIN structure.subtitles
               /\ r.chapter \in DOMAIN structure.subtitles[r.subtitle].chapters
            THEN PartInChapter(structure.subtitles[r.subtitle].chapters[r.chapter],
                               r.subchapter, r.part)
            ELSE [found |-> FALSE, size |-> 0]
        underTitle ==
            IF Truthy(r.chapter) /\ r.chapter \in DOMAIN structure.chapters
            THEN PartInChapter(structure.chapters[r.chapter], r.subchapter, r.part)
            ELSE [found |-> FALSE, size |-> 0]
    IN IF underSubtitle.found THEN Outcome(underSubtitle.size, <<>>)
       ELSE IF underTitle.found THEN Outcome(underTitle.size, <<>>)
       ELSE IF Truthy(r.subtitle) /\ Truthy(r.chapter)
               /\ r.subtitle \in DOMAIN structure.subtitles
               /\ r.chapter \in DOMAIN structure.subtitles[r.subtitle].chapters
       THEN Outcome(structure.subtitles[r.subtitle].chapters[r.chapter].size, <<>>)
       ELSE Outcome(0, <<"Part not found">>)

\* if part: ...
ResolvePart(structure, r) ==
    LET underSubtitle ==
            IF Truthy(r.subtitle) /\ Truthy(r.chapter)
               /\ r.subtitle \in DOMAIN structure.subtitles
               /\ r.chapter \in DOMAIN structure.subtitles[r.subtitle].chapters
            THEN PartInChapter(structure.subtitles[r.subtitle].chapters[r.chapter],
                               r.subchapter, r.part)
            ELSE [found |-> FALSE, size |-> 0]
        underTitle ==
            IF Truthy(r.chapter) /\ r.chapter \in DOMAIN structure.chapters
            THEN PartInChapter(structure.chapters[r.chapter], r.subchapter, r.part)
            ELSE [found |-> FALSE, size |-> 0]
    IN IF underSubtitle.found THEN Outcome(underSubtitle.size, <<>>)
       ELSE IF underTitle.found THEN Outcome(underTitle.size, <<>>)
       ELSE Outcome(0, <<"Part not found">>)

\* ResolveSubchapter trying the title-direct chapter before the subtitle's.
ResolveSubchapter_TitleFirst(structure, r) ==
    IF Truthy(r.chapter) /\ r.chapter \in DOMAIN structure.chapters
       /\ r.subchapter \in DOMAIN structure.chapters[r.chapter].subchapters
    THEN Outcome(structure.chapters[r.chapter].subchapters[r.subchapter].size, <<>>)
    ELSE IF Truthy(r.subtitle) /\ Truthy(r.chapter)
            /\ r.subtitle \in DOMAIN structure.subtitles
            /\ r.chapter \in DOMAIN structure.subtitles[r.subtitle].chapters
            /\ r.subchapter \in
                 DOMAIN structure.subtitles[r.subtitle].chapters[r.chapter].subchapters
    THEN Outcome(structure.subtitles[r.subtitle].chapters[r.chapter]
                     .subchapters[r.subchapter].size, <<>>)
    ELSE Outcome(0, <<"Subchapter not found">>)

\* if subchapter: ...
ResolveSubchapter(structure, r) ==
    IF Truthy(r.subtitle) /\ Truthy(r.chapter)
       /\ r.subtitle \in DOMAIN structure.subtitles
       /\ r.chapter \in DOMAIN structure.subtitles[r.subtitle].chapters
       /\ r.subchapter \in
            DOMAIN structure.subtitles[r.subtitle].chapters[r.chapter].subchapters
    THEN Outcome(structure.subtitles[r.subtitle].chapters[r.chapter]
                     .subchapters[r.subchapter].size, <<>>)
    ELSE IF Truthy(r.chapter) /\ r.chapter \in DOMAIN structure.chapters
            /\ r.subchapter \in DOMAIN structure.chapters[r.chapter].subchapters
    THEN Outcome(structure.chapters[r.chapter].subchapters[r.subchapter].size, <<>>)
    ELSE Outcome(0, <<"Subchapter not found">>)

\* ResolveChapter trying the title-direct chapter before the subtitle's.
ResolveChapter_TitleFirst(structure, r) ==
    IF r.chapter \in DOMAIN structure.chapters
    THEN Outcome(structure.chapters[r.chapter].size, <<>>)
    ELSE IF Truthy(r.subtitle) /\ r.subtitle \in DOMAIN structure.subtitles
            /\ r.chapter \in DOMAIN structure.subtitles[r.subtitle].chapters
    THEN Outcome(structure.subtitles[r.subtitle].chapters[r.chapter].size, <<>>)
    ELSE Outcome(0, <<"Chapter not found">>)

\* ResolveChapter that never consults the title-direct map once a subtitle
\* is named.
ResolveChapter_NoFallback(structure, r) ==
    IF Truthy(r.subtitle) /\ r.subtitle \in DOMAIN structure.subtitles
       /\ r.chapter \in DOMAIN structure.subtitles[r.subtitle].chapters
    THEN Outcome(structure.subtitles[r.subtitle].chapters[r.chapter].size, <<>>)
    ELSE IF ~Truthy(r.subtitle) /\ r.chapter \in DOMAIN structure.chapters
    THEN Outcome(structure.chapters[r.chapter].size, <<>>)
    ELSE Outcome(0, <<"Chapter not found">>)

\* if chapter: ...
ResolveChapter(structure, r) ==
    IF Truthy(r.subtitle) /\ r.subtitle \in DOMAIN structure.subtitles
       /\ r.chapter \in DOMAIN structure.subtitles[r.subtitle].chapters
    THEN Outcome(structure.subtitles[r.subtitle].chapters[r.chapter].size, <<>>)
    ELSE IF r.chapter \in DOMAIN structure.chapters
    THEN Outcome(structure.chapters[r.chapter].size, <<>>)
    ELSE Outcome(0, <<"Chapter not found">>)

\* ResolveSubtitle recording only the first failure of a reference.
ResolveSubtitle_OneRecord(structure, r) ==
    IF Truthy(r.subtitle) /\ r.subtitle \in DOMAIN structure.subtitles
    THEN Outcome(structure.subtitles[r.subtitle].size, <<>>)
    ELSE IF Truthy(r.subtitle)
    THEN Outcome(0, <<"Subtitle not found">>)
    ELSE Outcome(0, <<"No valid subtitle or chapter specified">>)

\* The subtitle level, the 'no valid subtitle or chapter' failure and the
\* report of the unsupported levels that follows it.
ResolveSubtitle(structure, r) ==
    IF Truthy(r.subtitle) /\ r.subtitle \in DOMAIN structure.subtitles
    THEN Outcome(structure.subtitles[r.subtitle].size, <<>>)
    ELSE IF Truthy(r.subtitle)
    THEN Outcome(0, <<"Subtitle not found">>)
    ELSE Outcome(0, <<"No valid subtitle or chapter specified">>
                    \o (IF Truthy(r.subpart) \/ Truthy(r.section)
                        THEN <<"Subpart or section not supported">>
                        ELSE <<>>))

\* Bottom-up: start with the most specific level.
ResolveRef(structure, r) ==
    IF Truthy(r.part) THEN ResolvePart(structure, r)
    ELSE IF Truthy(r.subchapter) THEN ResolveSubchapter(structure, r)
    ELSE IF Truthy(r.chapter) THEN ResolveChapter(structure, r)
    ELSE ResolveSubtitle(structure, r)

(***************************************************************************)
(* Inputs: the raw title trees the structure endpoint may return and the   *)
(* references an agency may carry.                                         *)
(***************************************************************************)

TitleNums == {1}

\* Leaves below a subchapter-level node; s is the size of the live part.
LeafSeqs(s) ==
    { <<>>,
      <<Node("part", "12", s, FALSE, <<>>)>>,
      <<Node("part", "12", s, TRUE, <<>>)>>,
      <<Node("part", None, s, FALSE, <<>>)>>,
      <<Node("subject_group", "12", s, FALSE, <<>>)>> }

SubchapterS(b, leaves) == Node("subchapter", "S", 20 + b, FALSE, leaves)

\* A grouping node without identifier holding one live part.
Unnamed(b) ==
    Node("subchapter", None, 30 + b, FALSE, <<Node("part", "12", 12 + b, FALSE, <<>>)>>)

\* A part that is a direct child of its chapter.
DirectPart(b, res) == Node("part", "12", 15 + b, res, <<>>)

\* Children of a chapter under a subtitle (b = 0).
SubtitleChapterKids ==
    { <<>>, <<DirectPart(0, FALSE)>>, <<DirectPart(0, TRUE)>>, <<Unnamed(0)>> }
    \cup { <<SubchapterS(0, l)>> : l \in LeafSeqs(17) }
    \cup { <<SubchapterS(0, l), Unnamed(0)>> :
             l \in { <<>>, <<Node("part", "12", 17, FALSE, <<>>)>> } }

\* Children of a chapter directly under the title (b = 1).
TitleChapterKids ==
    { <<>>, <<DirectPart(1, FALSE)>>, <<Unnamed(1)>>,
      <<SubchapterS(1, <<Node("part", "12", 18, FALSE, <<>>)>>)>>,
      <<SubchapterS(1, <<Node("part", "12", 18, FALSE, <<>>)>>), Unnamed(1)>> }

SubtitleKids ==
    { <<>>, <<Node("chapter", None, 40, FALSE, <<>>)>> }
    \cup { <<Node("chapter", "I", 40, FALSE, k)>> : k \in SubtitleChapterKids }

TitleKids ==
    LET subtitles == { <<>> } \cup { <<Node("subtitle", "A", 100, FALSE, k)>> :
                                       k \in SubtitleKids }
        chapters == { <<>> } \cup { <<Node("chapter", "I", 41, FALSE, k)>> :
                                      k \in TitleChapterKids }
    IN { s \o c : s \in subtitles, c \in chapters }

\* What fetch_title_structure may return: {} after a failed fetch is the
\* tree without children (build_structure_dict reads only 'children').
RawTitles == { Node("title", "1", 0, FALSE, k) : k \in TitleKids }

IntTitle(t) == [kind |-> "int", val |-> t]

Ref(t, st, ch, sc, p, sp, se) ==
    [title |-> t, subtitle |-> st, chapter |-> ch, subchapter |-> sc,
     part |-> p, subpart |-> sp, section |-> se]

\* The reference {} : every .get returns None.
EmptyRef == Ref([kind |-> "none", val |-> 0], None, None, None, None, None, None)

RefSet ==
    { Ref(IntTitle(1), st, ch, sc, p, u[1], u[2]) :
        st \in {None, "A"}, ch \in {None, "I"}, sc \in {None, "S"}, p \in {None, "12"},
        u \in { <<None, None>>, <<"b", None>>, <<None, "1.1">> } }
    \cup { EmptyRef,
           Ref([kind |-> "str", val |-> 1], "A", "I", None, None, None, None) }

AgencyName == "agency"

(***************************************************************************)
(* State machine of one call of process_agency_cfr_references.             *)
(***************************************************************************)

\* log_cfr_reference_error
log_cfr_reference_error(log, agency_name, cfr_reference, error_message) ==
    Append(log, [agency_name |-> agency_name, cfr_reference |-> cfr_reference,
                 error_message |-> error_message])

RECURSIVE LogAll(_, _, _, _, _)
LogAll(log, agency_name, r, msgs, i) ==
    IF i > Len(msgs) THEN log
    ELSE LogAll(log_cfr_reference_error(log, agency_name, r, msgs[i]),
                agency_name, r, msgs, i + 1)

\* fetch_title_structure: the tree the endpoint serves for the title.
fetch_title_structure(title) == raw[title]

\* preload_title_structures over a list of titles.
preload_title_structures(title_nums) ==
    [t \in title_nums |-> build_structure_dict(fetch_title_structure(t))]

\* The variables a specification does not use keep these values.
RunIdle == titles = {} /\ agencies = <<>> /\ stack = <<>> /\ results = <<>>

FetchIdle ==
    /\ attempt = 0 /\ requests = 0 /\ slept = 0
    /\ retries = 0 /\ outcomes = <<>> /\ response = EmptyDict

OtherIdle == ancestors = <<>> /\ FetchIdle

\* `not structure` on a dict: true of the empty dict only.
NotStructure_EmptyIndex(structure) ==
    DOMAIN structure.subtitles = {} /\ DOMAIN structure.chapters = {}

NotStructure(structure) == DOMAIN structure = {}

\* One more fetch_title_structure call for the title.
Fetched(counts, title) ==
    DictSet(counts, title, IF title \in DOMAIN counts THEN counts[title] + 1 ELSE 1)

\* Iteration that skips the reference whose title it had to fetch.
Iteration_SkipOnMiss(s, agency_name, r) ==
    IF r.title.kind # "int"
    THEN [s EXCEPT !.errors = log_cfr_reference_error(@, agency_name, r, "Invalid title")]
    ELSE LET title == r.title.val
             cached == title \in DOMAIN s.title_structures
             structure == IF cached THEN s.title_structures[title]
                          ELSE build_structure_dict(fetch_title_structure(title))
             out == ResolveRef(structure, r)
             s1 == IF cached THEN s
                   ELSE [s EXCEPT !.title_structures = DictSet(@, title, structure),
                                  !.fetches = Fetched(@, title)]
         IN IF ~cached
            THEN s1
            ELSE [s1 EXCEPT !.word_count = @ + out.add,
                            !.errors = LogAll(@, agency_name, r, out.msgs, 1)]

\* Iteration that fetches and indexes the title again on every reference.
Iteration_Refetch(s, agency_name, r) ==
    IF r.title.kind # "int"
    THEN [s EXCEPT !.errors = log_cfr_reference_error(@, agency_name, r, "Invalid title")]
    ELSE LET title == r.title.val
             structure == build_structure_dict(fetch_title_structure(title))
             out == ResolveRef(structure, r)
             s1 == [s EXCEPT !.title_structures = DictSet(@, title, structure),
                             !.fetches = Fetched(@, title)]
         IN [s1 EXCEPT !.word_count = @ + out.add,
                       !.errors = LogAll(@, agency_name, r, out.msgs, 1)]

\* The body of `for ref in relevant_refs` on the state s =
\* [title_structures, word_count, errors, fetches] of the call.
Iteration(s, agency_name, r) ==
    IF r.title.kind # "int"
    THEN [s EXCEPT !.errors = log_cfr_reference_error(@, agency_name, r, "Invalid title")]
    ELSE LET title == r.title.val
             cached == title \in DOMAIN s.title_structures
             structure == IF cached THEN s.title_structures[title]
                          ELSE build_structure_dict(fetch_title_structure(title))
             out == ResolveRef(structure, r)
             s1 == IF cached THEN s
                   ELSE [s EXCEPT !.title_structures = DictSet(@, title, structure),
                                  !.fetches = Fetched(@, title)]
         IN IF ~cached /\ NotStructure(structure)
            THEN [s1 EXCEPT !.errors = log_cfr_reference_error(@, agency_name, r,
                                                              "No structure data")]
            ELSE [s1 EXCEPT !.word_count = @ + out.add,
                            !.errors = LogAll(@, agency_name, r, out.msgs, 1)]

\* The state of the call as Iteration takes it.
CallState ==
    [title_structures |-> title_structures, word_count |-> word_count,
     errors |-> errors, fetches |-> fetches]

Init ==
    /\ raw \in [TitleNums -> RawTitles]
    /\ \E loaded \in SUBSET TitleNums :
         /\ title_structures = preload_title_structures(loaded)
         /\ fetches = [t \in loaded |-> 1]
    /\ ref = EmptyRef
    /\ word_count = 0
    /\ errors = <<>>
    /\ n = 0
    /\ pc = "loop"
    /\ RunIdle /\ OtherIdle

\* if not relevant_refs: log and return 0
ReturnEmpty ==
    /\ pc = "loop" /\ n = 0
    /\ errors' = log_cfr_reference_error(errors, AgencyName, EmptyRef,
                                         "No cfr_references provided")
    /\ pc' = "done"
    /\ UNCHANGED <<raw, title_structures, ref, word_count, n, fetches, runVars, otherVars>>

\* One iteration of `for ref in relevant_refs`.
ProcessRef(r) ==
    /\ pc = "loop" /\ n < MaxRefs
    /\ ref' = r
    /\ n' = n + 1
    /\ LET s == Iteration(CallState, AgencyName, r)
       IN /\ title_structures' = s.title_structures
          /\ word_count' = s.word_count
          /\ errors' = s.errors
          /\ fetches' = s.fetches
    /\ UNCHANGED <<raw, pc, runVars, otherVars>>

\* The list is exhausted: return word_count.
Return ==
    /\ pc = "loop" /\ n > 0
    /\ pc' = "done"
    /\ UNCHANGED <<raw, title_structures, ref, word_count, errors, n, fetches,
                   runVars, otherVars>>

Next ==
    \/ \E r \in RefSet : ProcessRef(r)
    \/ ReturnEmpty
    \/ Return

Spec == Init /\ [][Next]_vars

(***************************************************************************)
(* The whole run: analyze_ecfr preloads the title structures and walks the *)
(* agencies with process_agency_and_children.  stack holds one frame per   *)
(* active `for` loop over a list of agencies: analyze_ecfr's loop at the   *)
(* bottom, then the loop over the children of each agency being processed. *)
(* A result record carries name, cfr_references, sub_agencies and          *)
(* word_count; short_name and slug are copied through and left out.        *)
(***************************************************************************)

\* Longest reference list of an agency of the run.
MaxList == 2

RunTitles == {1, 2}

\* The failed fetch and one tree with a subtitle, a chapter under it holding
\* a subchapter with a part, and a chapter directly under the title.
RunRawTitles ==
    { Node("title", "1", 0, FALSE, <<>>),
      Node("title", "1", 0, FALSE,
           << Node("subtitle", "A", 100, FALSE,
                   << Node("chapter", "I", 40, FALSE,
                           << SubchapterS(0, <<Node("part", "12", 17, FALSE, <<>>)>>) >>) >>),
              Node("chapter", "I", 41, FALSE, <<>>) >>) }

RunRefs ==
    { Ref(IntTitle(1), "A", None, None, None, None, None),
      Ref(IntTitle(1), None, "I", None, None, None, None),
      Ref(IntTitle(2), "A", "I", "S", "12", None, None),
      Ref(IntTitle(2), "A", None, None, None, None, None),
      Ref(IntTitle(1), None, None, None, None, "b", None),
      Ref([kind |-> "str", val |-> 1], "A", None, None, None, None, None) }

\* Sequences over S of length at most k.
RECURSIVE SeqsUpTo(_, _)
SeqsUpTo(S, k) ==
    IF k = 0 THEN { <<>> }
    ELSE LET shorter == SeqsUpTo(S, k - 1)
         IN shorter \cup { Append(q, x) : q \in shorter, x \in S }

Agency(name, refs, kids) ==
    [display_name |-> name, cfr_references |-> refs, children |-> kids]

\* An agency record without the cfr_references key.
AgencyNoRefs(name, kids) == [display_name |-> name, children |-> kids]

\* The agency lists analyze_ecfr may receive: one agency with any reference
\* list, and three forests with short lists.
RunAgencies ==
    LET r == [i \in 1..4 |->
                CASE i = 1 -> Ref(IntTitle(1), "A", None, None, None, None, None)
                  [] i = 2 -> Ref(IntTitle(1), None, "I", None, None, None, None)
                  [] i = 3 -> Ref(IntTitle(2), "A", "I", "S", "12", None, None)
                  [] i = 4 -> Ref([kind |-> "str", val |-> 1], "A", None, None, None, None, None)]
        parents(name, kids) ==
            { Agency(name, <<>>, kids), Agency(name, <<r[1]>>, kids),
              AgencyNoRefs(name, kids) }
        childLists == { <<r[3]>>, <<r[2], r[4]>> }
    IN { <<Agency("P", l, <<>>)>> : l \in SeqsUpTo(RunRefs, MaxList) }
       \cup { <<p>> : p \in UNION { parents("P", << Agency("P1", l, <<>>),
                                                   Agency("P2", <<r[1]>>, <<>>) >>) :
                                     l \in childLists } }
       \cup { <<p, Agency("Q", <<r[3]>>, <<>>)>> :
                p \in UNION { parents("P", << Agency("P1", l,
                                                     << Agency("P11", <<>>, <<>>) >>) >>) :
                              l \in childLists } }
       \cup { <<Agency("P", <<r[4]>>, <<>>), q>> :
                q \in UNION { parents("Q", << Agency("Q1", l, <<>>) >>) :
                              l \in childLists } }

\* agency.get('display_name', 'Unknown Agency'), .get('cfr_references', [])
\* and .get('children', [])
DisplayName(agency) ==
    IF "display_name" \in DOMAIN agency THEN agency.display_name ELSE "Unknown Agency"

CfrReferences(agency) ==
    IF "cfr_references" \in DOMAIN agency THEN agency.cfr_references ELSE <<>>

Children(agency) ==
    IF "children" \in DOMAIN agency THEN agency.children ELSE <<>>

\* RefLoop that leaves the loop at the first reference adding a diagnostic.
RECURSIVE RefLoop_StopAtFailure(_, _, _, _)
RefLoop_StopAtFailure(s, agency_name, relevant_refs, i) ==
    IF i > Len(relevant_refs) THEN s
    ELSE LET s1 == Iteration(s, agency_name, relevant_refs[i])
         IN IF Len(s1.errors) > Len(s.errors) THEN s1
            ELSE RefLoop_StopAtFailure(s1, agency_name, relevant_refs, i + 1)

\* for ref in relevant_refs: ...
RECURSIVE RefLoop(_, _, _, _)
RefLoop(s, agency_name, relevant_refs, i) ==
    IF i > Len(relevant_refs) THEN s
    ELSE RefLoop(Iteration(s, agency_name, relevant_refs[i]), agency_name,
                 relevant_refs, i + 1)

\* process_agency_cfr_references that stays silent on an empty list.
process_agency_cfr_references_Silent(relevant_refs, s, agency_name) ==
    RefLoop([s EXCEPT !.word_count = 0], agency_name, relevant_refs, 1)

\* The call on the cache, fetch counts and log of s; the returned total is
\* the word_count of the result.
process_agency_cfr_references(relevant_refs, s, agency_name) ==
    IF Len(relevant_refs) = 0
    THEN [s EXCEPT !.word_count = 0,
                   !.errors = log_cfr_reference_error(@, agency_name, EmptyRef,
                                                      "No cfr_references provided")]
    ELSE RefLoop([s EXCEPT !.word_count = 0], agency_name, relevant_refs, 1)

\* The record process_agency_and_children appends for an agency.
ResultRecord(agency, total) ==
    [name |-> DisplayName(agency), cfr_references |-> CfrReferences(agency),
     sub_agencies |-> Len(Children(agency)), word_count |-> total]

RunInit ==
    /\ raw \in [RunTitles -> RunRawTitles]
    /\ agencies \in RunAgencies
    /\ title_structures = EmptyDict
    /\ fetches = EmptyDict
    /\ ref = EmptyRef
    /\ word_count = 0
    /\ errors = <<>>
    /\ n = 0
    /\ pc = "preload"
    /\ titles = {}
    /\ stack = <<>>
    /\ results = <<>>
    /\ OtherIdle

\* analyze_ecfr up to its loop over the agencies: the titles list is not
\* empty and names each title once.
Preload ==
    /\ pc = "preload"
    /\ titles' \in (SUBSET RunTitles) \ {{}}
    /\ title_structures' = preload_title_structures(titles')
    /\ fetches' = [t \in titles' |-> 1]
    /\ stack' = << [kids |-> agencies, i |-> 1] >>
    /\ pc' = "run"
    /\ UNCHANGED <<raw, ref, word_count, errors, n, agencies, results, otherVars>>

Top == stack[Len(stack)]

\* results.insert(0, ...) in place of results.append(...)
VisitResults_Front(rs, rec) == <<rec>> \o rs

\* results.append(...)
VisitResults(rs, rec) == Append(rs, rec)

\* process_agency_and_children on the next agency of the innermost loop: the
\* call, the append, and the entry into the loop over its children.
Visit ==
    /\ pc = "run" /\ stack # <<>> /\ Top.i <= Len(Top.kids)
    /\ LET agency == Top.kids[Top.i]
           relevant_refs == CfrReferences(agency)
           s == process_agency_cfr_references(relevant_refs, CallState,
                                              DisplayName(agency))
       IN /\ title_structures' = s.title_structures
          /\ fetches' = s.fetches
          /\ errors' = s.errors
          /\ word_count' = s.word_count
          /\ n' = Len(relevant_refs)
          /\ ref' = IF Len(relevant_refs) = 0 THEN ref
                    ELSE relevant_refs[Len(relevant_refs)]
          /\ results' = VisitResults(results, ResultRecord(agency, s.word_count))
          /\ stack' = [stack EXCEPT ![Len(stack)].i = @ + 1]
                      \o << [kids |-> Children(agency), i |-> 1] >>
    /\ UNCHANGED <<raw, pc, titles, agencies, otherVars>>

\* A loop over a list of agencies is exhausted: return to the caller; the
\* run is finished when analyze_ecfr's own loop is.
Leave ==
    /\ pc = "run" /\ stack # <<>> /\ Top.i > Len(Top.kids)
    /\ stack' = SubSeq(stack, 1, Len(stack) - 1)
    /\ pc' = IF Len(stack) = 1 THEN "finished" ELSE "run"
    /\ UNCHANGED <<raw, title_structures, fetches, ref, word_count, errors, n,
                   titles, agencies, results, otherVars>>

RunNext == Preload \/ Visit \/ Leave

SpecRun == RunInit /\ [][RunNext]_vars

(***************************************************************************)
(* minimal.py, parse_ancestry.  A value of a reference field or of an      *)
(* ancestor's identifier is a record [kind, text]: kind is "int", "str" or *)
(* "none" (None or an absent key) and text is what str() returns for it.   *)
(***************************************************************************)

\* Longest ancestor list.
MaxAnc == 2

PyInt(text) == [kind |-> "int", text |-> text]

PyStr(text) == [kind |-> "str", text |-> text]

PyNone == [kind |-> "none", text |-> "None"]

\* str(x)
Str(x) == x.text

\* Truthiness of a value: None, "" and 0 are falsy.
PyTruthy(x) ==
    /\ x.kind # "none"
    /\ ~(x.kind = "str" /\ x.text = "")
    /\ ~(x.kind = "int" /\ x.text = "0")

\* str(ref_dict.get(k)) if ref_dict.get(k) else None
StrOrNone(x) == IF PyTruthy(x) THEN PyStr(Str(x)) ELSE PyNone

Ancestor(t, id, sz) == [type |-> t, identifier |-> id, size |-> sz]

AncestorSet ==
    { Ancestor("title", PyStr("1"), 1000),
      Ancestor("subtitle", PyStr("A"), 100),
      Ancestor("chapter", PyStr("I"), 40),
      Ancestor("part", PyStr("12"), 15),
      Ancestor("part", PyInt("12"), 16),
      Ancestor("section", PyStr("12"), 3) }

AncestryRefs ==
    { Ref(t, st, ch, PyNone, p, PyNone, se) :
        t \in {PyInt("1"), PyNone}, st \in {PyNone, PyStr("A")},
        ch \in {PyNone, PyStr("I")},
        p \in {PyNone, PyStr("12"), PyInt("12"), PyStr("99")},
        se \in {PyNone, PyStr("1.1")} }

\* for ancestor in ancestors: ... return size
RECURSIVE AncestorLoop(_, _, _, _)
AncestorLoop(ancs, deepest_level, deepest_id, i) ==
    IF i > Len(ancs) THEN 0
    ELSE LET ancestor_type == ancs[i].type
             ancestor_id == Str(ancs[i].identifier)
         IN IF ancestor_type = deepest_level /\ ancestor_id = deepest_id
            THEN ancs[i].size
            ELSE AncestorLoop(ancs, deepest_level, deepest_id, i + 1)

\* not ref, for the tuple of the (key, value) pairs of the reference: a
\* field that is None stands for an absent key.
EmptyTuple(r) ==
    \A f \in DOMAIN r : r[f].kind = "none"

\* The levels below the deepest one, tried in turn when the scan fails.
RECURSIVE FallbackScan(_, _, _)
FallbackScan(ancs, cands, i) ==
    IF i > Len(cands) THEN 0
    ELSE LET hit == { k \in 1..Len(ancs) :
                        /\ ancs[k].type = cands[i][1]
                        /\ Str(ancs[k].identifier) = cands[i][2] }
         IN IF hit # {} THEN ancs[CHOOSE k \in hit : \A j \in hit : k <= j].size
            ELSE FallbackScan(ancs, cands, i + 1)

\* parse_ancestry falling back to the shallower levels the reference names.
parse_ancestry_Fallback(ancs, r) ==
    IF Len(ancs) = 0 \/ EmptyTuple(r) THEN 0
    ELSE LET all == << <<"section", r.section>>, <<"subpart", r.subpart>>,
                       <<"part", r.part>>, <<"subchapter", r.subchapter>>,
                       <<"chapter", r.chapter>>, <<"subtitle", r.subtitle>> >>
             named == SelectSeq(all, LAMBDA c : PyTruthy(c[2]))
             cands == [k \in 1..Len(named) |-> <<named[k][1], Str(named[k][2])>>]
                      \o << <<"title", Str(r.title)>> >>
         IN FallbackScan(ancs, cands, 1)

parse_ancestry(ancs, r) ==
    IF Len(ancs) = 0 \/ EmptyTuple(r) THEN 0
    ELSE LET title == r.title
             subtitle == StrOrNone(r.subtitle)
             chapter == StrOrNone(r.chapter)
             subchapter == StrOrNone(r.subchapter)
             part == StrOrNone(r.part)
             subpart == StrOrNone(r.subpart)
             section == StrOrNone(r.section)
             deepest ==
                 IF PyTruthy(section) THEN <<"section", Str(section)>>
                 ELSE IF PyTruthy(subpart) THEN <<"subpart", Str(subpart)>>
                 ELSE IF PyTruthy(part) THEN <<"part", Str(part)>>
                 ELSE IF PyTruthy(subchapter) THEN <<"subchapter", Str(subchapter)>>
                 ELSE IF PyTruthy(chapter) THEN <<"chapter", Str(chapter)>>
                 ELSE IF PyTruthy(subtitle) THEN <<"subtitle", Str(subtitle)>>
                 ELSE <<"title", Str(title)>>
         IN AncestorLoop(ancs, deepest[1], deepest[2], 1)

AncestryInit ==
    /\ ancestors \in SeqsUpTo(AncestorSet, MaxAnc)
    /\ ref \in AncestryRefs
    /\ word_count = 0
    /\ pc = "parse"
    /\ raw = <<>> /\ title_structures = EmptyDict /\ fetches = EmptyDict
    /\ errors = <<>> /\ n = 0
    /\ RunIdle /\ FetchIdle

\* word_count = parse_ancestry(ancestors, ref_tuple)
ParseAncestry ==
    /\ pc = "parse"
    /\ word_count' = parse_ancestry(ancestors, ref)
    /\ pc' = "parsed"
    /\ UNCHANGED <<raw, title_structures, fetches, ref, errors, n, runVars, otherVars>>

AncestryNext == ParseAncestry

SpecAncestry == AncestryInit /\ [][AncestryNext]_vars

(***************************************************************************)
(* fetch_title_structure calling fetch_with_retries for title 1.  One      *)
(* action is one pass of the retry loop: the request, and on a             *)
(* RequestException the handler with its sleep or its raise.  outcomes is  *)
(* the history of the requests issued, slept the seconds spent in          *)
(* time.sleep.  The URL ends in .json, so a success returns the parsed     *)
(* tree.                                                                   *)
(***************************************************************************)

\* Largest retries argument.
MaxRetries == 3

RETRY_ATTEMPTS == 3

RETRY_DELAY == 2

\* What requests.get / raise_for_status / json do on one attempt: succeed
\* or raise a requests.RequestException.
Outcomes == {"ok", "Timeout", "HTTPError"}

\* if attempt < retries (sleeping after every failure)
MoreAttempts_Always(a, r) == a < r

\* if attempt < retries - 1
MoreAttempts(a, r) == a < r - 1

FetchInit ==
    /\ raw \in [TitleNums -> RawTitles]
    /\ retries \in 1..MaxRetries
    /\ attempt = 0 /\ requests = 0 /\ slept = 0
    /\ outcomes = <<>> /\ response = EmptyDict
    /\ pc = "fetch"
    /\ title_structures = EmptyDict /\ fetches = EmptyDict
    /\ ref = EmptyRef /\ word_count = 0 /\ errors = <<>> /\ n = 0
    /\ RunIdle
    /\ ancestors = <<>>

\* One pass of `for attempt in range(retries)`.
Attempt(o) ==
    /\ pc = "fetch"
    /\ attempt < retries
    /\ requests' = requests + 1
    /\ outcomes' = Append(outcomes, o)
    /\ IF o = "ok"
       THEN /\ response' = raw[1]
            /\ pc' = "returned"
            /\ UNCHANGED <<attempt, slept>>
       ELSE IF MoreAttempts(attempt, retries)
       THEN /\ slept' = slept + RETRY_DELAY
            /\ attempt' = attempt + 1
            /\ IF attempt + 1 < retries
               THEN pc' = "fetch" /\ UNCHANGED response
               ELSE pc' = "returned" /\ response' = None
       ELSE /\ pc' = "raised"
            /\ UNCHANGED <<attempt, slept, response>>
    /\ UNCHANGED <<raw, title_structures, fetches, ref, word_count, errors, n,
                   runVars, ancestors, retries>>

\* except Exception in fetch_title_structure: return {}
Catch ==
    /\ pc = "raised"
    /\ response' = EmptyDict
    /\ pc' = "returned"
    /\ UNCHANGED <<raw, title_structures, fetches, ref, word_count, errors, n,
                   runVars, ancestors, attempt, requests, slept, retries, outcomes>>

FetchNext ==
    \/ \E o \in Outcomes : Attempt(o)
    \/ Catch

SpecFetch == FetchInit /\ [][FetchNext]_vars

(***************************************************************************)
(* Properties.  A step with n' = n + 1 is one iteration of the loop over   *)
(* the references; ref' is the reference it handled.                       *)
(***************************************************************************)

RefStep == n' = n + 1

\* A loop iteration whose reference has an integer title.
ValidStep == RefStep /\ ref'.title.kind = "int"

\* What the iteration added to the total and the records it appended.
Added == word_count' - word_count

NewErrors == SubSeq(errors', Len(errors) + 1, Len(errors'))

\* The index the iteration resolved against.
Used == title_structures'[ref'.title.val]

Diag(r, msg) == [agency_name |-> AgencyName, cfr_reference |-> r, error_message |-> msg]

\* An optional value: <<v>> or <<>>.
Get(d, k) == IF k \in DOMAIN d THEN <<d[k]>> ELSE <<>>

Then(opt, F(_)) == IF Len(opt) = 0 THEN <<>> ELSE F(opt[1])

\* The first present value of a sequence of optional values.
FirstOf(opts) ==
    LET hit == { k \in 1..Len(opts) : Len(opts[k]) > 0 }
    IN IF hit = {} THEN <<>>
       ELSE opts[CHOOSE k \in hit : \A j \in hit : k <= j]

\* The chapter a reference names under its subtitle, and directly under the
\* title.
SubtitleChapter(idx, r) ==
    LET chaptersOf(st) == Get(st.chapters, r.chapter)
    IN Then(Get(idx.subtitles, r.subtitle), chaptersOf)

TitleChapter(idx, r) == Get(idx.chapters, r.chapter)

\* Candidate paths to the part, in the fixed order.
PartPaths(idx, r) ==
    LET partOfSub(sc) == Get(sc.parts, r.part)
        viaSubchapter(ch) == Then(Get(ch.subchapters, r.subchapter), partOfSub)
        direct(ch) == Get(ch.parts, r.part)
    IN << Then(SubtitleChapter(idx, r), viaSubchapter),
          Then(SubtitleChapter(idx, r), direct),
          Then(TitleChapter(idx, r), viaSubchapter),
          Then(TitleChapter(idx, r), direct) >>

\* Candidate paths to the subchapter.
SubchapterPaths(idx, r) ==
    LET sub(ch) == Get(ch.subchapters, r.subchapter)
    IN << Then(SubtitleChapter(idx, r), sub), Then(TitleChapter(idx, r), sub) >>

\* Candidate paths to the chapter.
ChapterPaths(idx, r) == << SubtitleChapter(idx, r), TitleChapter(idx, r) >>

\* C1: a reference naming a part adds the part size of the first of the
\* paths (subtitle->chapter->subchapter->part), (subtitle->chapter->part),
\* (chapter->subchapter->part), (chapter->part) that reaches the part; when
\* none does it adds nothing and records exactly one 'Part not found'.
C1_PartPathOrder ==
    [][(ValidStep /\ Truthy(ref'.part)) =>
         LET first == FirstOf(PartPaths(Used, ref'))
         IN IF Len(first) > 0
            THEN Added = first[1] /\ NewErrors = <<>>
            ELSE Added = 0 /\ NewErrors = <<Diag(ref', "Part not found")>>]_vars

\* The named subchapter's part map and the chapter's own part map hold the
\* same part identifier with different sizes; the subchapter's size was added.
C1_Witness ==
    /\ n = 1 /\ ref.title.kind = "int"
    /\ ref.subtitle = "A" /\ ref.chapter = "I" /\ ref.subchapter = "S" /\ ref.part = "12"
    /\ LET ch == title_structures[1].subtitles["A"].chapters["I"]
       IN /\ "A" \in DOMAIN title_structures[1].subtitles
          /\ "I" \in DOMAIN title_structures[1].subtitles["A"].chapters
          /\ "S" \in DOMAIN ch.subchapters
          /\ "12" \in DOMAIN ch.subchapters["S"].parts
          /\ "12" \in DOMAIN ch.parts
          /\ ch.parts["12"] # ch.subchapters["S"].parts["12"]
          /\ word_count = ch.subchapters["S"].parts["12"]
    /\ errors = <<>>

\* The size of the most specific named level that can be reached, falling
\* back from part to subchapter to chapter to subtitle.
DegradedSize(idx, r) ==
    LET size(x) == <<x.size>>
        ident(x) == <<x>>
    IN FirstOf(<< IF Truthy(r.part) THEN FirstOf(PartPaths(idx, r)) ELSE <<>>,
                  IF Truthy(r.subchapter)
                  THEN Then(FirstOf(SubchapterPaths(idx, r)), size) ELSE <<>>,
                  IF Truthy(r.chapter)
                  THEN Then(FirstOf(ChapterPaths(idx, r)), size) ELSE <<>>,
                  Then(Get(idx.subtitles, r.subtitle), size) >>)

\* C2 as stated: when the most specific named field cannot be reached the
\* reference contributes the size of the next-less-specific named field
\* that can.
C2_DegradesToCoarser ==
    [][ValidStep =>
         LET d == DegradedSize(Used, ref')
         IN Len(d) > 0 => Added = d[1]]_vars

\* The most specific of part, subchapter, chapter, subtitle a reference names.
Deepest(r) ==
    IF Truthy(r.part) THEN "Part"
    ELSE IF Truthy(r.subchapter) THEN "Subchapter"
    ELSE IF Truthy(r.chapter) THEN "Chapter"
    ELSE IF Truthy(r.subtitle) THEN "Subtitle"
    ELSE "none"

\* Whether the deepest named level is reached on one of its paths.
DeepestFound(idx, r) ==
    IF Deepest(r) = "Part" THEN Len(FirstOf(PartPaths(idx, r))) > 0
    ELSE IF Deepest(r) = "Subchapter" THEN Len(FirstOf(SubchapterPaths(idx, r))) > 0
    ELSE IF Deepest(r) = "Chapter" THEN Len(FirstOf(ChapterPaths(idx, r))) > 0
    ELSE IF Deepest(r) = "Subtitle" THEN r.subtitle \in DOMAIN idx.subtitles
    ELSE FALSE

NotFoundMsg(level) ==
    IF level = "Part" THEN "Part not found"
    ELSE IF level = "Subchapter" THEN "Subchapter not found"
    ELSE IF level = "Chapter" THEN "Chapter not found"
    ELSE "Subtitle not found"

\* C2 amended: there is no fallback to a coarser level.  When the most
\* specific named field is reached on none of its paths the reference adds
\* nothing and records exactly that level's 'not found' diagnostic, whatever
\* coarser fields of the reference are indexed.
C2_NoCoarserFallback ==
    [][(ValidStep /\ Deepest(ref') # "none" /\ ~DeepestFound(Used, ref')) =>
         /\ Added = 0
         /\ NewErrors = <<Diag(ref', NotFoundMsg(Deepest(ref')))>>]_vars

\* The reference names subtitle, chapter, subchapter and part; the chapter is
\* indexed under the subtitle with a positive size, the part is not found,
\* and the reference contributed zero.
C2_Witness ==
    /\ n = 1 /\ ref.title.kind = "int"
    /\ ref.subtitle = "A" /\ ref.chapter = "I" /\ ref.subchapter = "S" /\ ref.part = "12"
    /\ "A" \in DOMAIN title_structures[1].subtitles
    /\ "I" \in DOMAIN title_structures[1].subtitles["A"].chapters
    /\ title_structures[1].subtitles["A"].chapters["I"].size > 0
    /\ ~DeepestFound(title_structures[1], ref)
    /\ word_count = 0
    /\ errors = <<Diag(ref, "Part not found")>>

\* Raw tree navigation.
Elems(seq) == { seq[i] : i \in 1..Len(seq) }

KidsOfType(node, t) == { k \in Elems(node.children) : k.type = t }

\* A live part: not reserved and carrying an identifier.
Live(p) == p.type = "part" /\ ~p.reserved /\ Truthy(p.identifier)

\* The raw chapters build_structure_dict indexes, each paired with its
\* chapter_dict in the index idx of the tree root.
IndexedChapters(root, idx) ==
    { <<c, idx.chapters[c.identifier]>> :
        c \in { k \in KidsOfType(root, "chapter") : Truthy(k.identifier) } }
    \cup UNION { { <<c, idx.subtitles[st.identifier].chapters[c.identifier]>> :
                     c \in { k \in KidsOfType(st, "chapter") : Truthy(k.identifier) } } :
                 st \in { k \in KidsOfType(root, "subtitle") : Truthy(k.identifier) } }

\* C3: a subtitle containing a chapter that directly contains a live part:
\* the reference {title, subtitle, chapter, part} naming them adds exactly
\* that part's size and records no diagnostic.
C3_ScenarioA ==
    [][(ValidStep /\ Truthy(ref'.part) /\ ~Truthy(ref'.subchapter)) =>
         \A st \in KidsOfType(raw[ref'.title.val], "subtitle") :
           \A ch \in KidsOfType(st, "chapter") :
             \A p \in KidsOfType(ch, "part") :
               (/\ st.identifier = ref'.subtitle /\ ch.identifier = ref'.chapter
                /\ Live(p) /\ p.identifier = ref'.part)
               => (Added = p.size /\ NewErrors = <<>>)]_vars

\* Part nodes lying directly under a chapter or under one of its subchapters.
PartNodes(ch) ==
    KidsOfType(ch, "part")
    \cup UNION { KidsOfType(sc, "part") : sc \in KidsOfType(ch, "subchapter") }

\* Keys of all the part maps of one chapter_dict.
PartKeys(cd) ==
    DOMAIN cd.parts
    \cup UNION { DOMAIN cd.subchapters[k].parts : k \in DOMAIN cd.subchapters }

\* C4: a part node under an indexed chapter is a key of some part map of
\* the index iff it is not reserved and has a non-empty identifier.
C4_PartIndexedIff ==
    \A t \in DOMAIN title_structures :
      \A pair \in IndexedChapters(raw[t], title_structures[t]) :
        \A p \in PartNodes(pair[1]) :
          (p.identifier \in PartKeys(pair[2])) <=> (~p.reserved /\ Truthy(p.identifier))

\* C5: a live part that is a direct child of a chapter is in that chapter's
\* own part map; a live part under an identified subchapter is in that
\* subchapter's part map and is not copied into the chapter's part map.
C5_PartPlacement ==
    \A t \in DOMAIN title_structures :
      \A pair \in IndexedChapters(raw[t], title_structures[t]) :
        LET ch == pair[1]
            cd == pair[2]
            named == { sc \in KidsOfType(ch, "subchapter") : Truthy(sc.identifier) }
            elsewhere == { p.identifier :
                             p \in PartNodes(ch) \ UNION { KidsOfType(sc, "part") : sc \in named } }
        IN /\ \A p \in KidsOfType(ch, "part") :
                Live(p) => /\ p.identifier \in DOMAIN cd.parts
                           /\ cd.parts[p.identifier] = p.size
           /\ \A sc \in named : \A p \in KidsOfType(sc, "part") :
                Live(p) => /\ sc.identifier \in DOMAIN cd.subchapters
                           /\ p.identifier \in DOMAIN cd.subchapters[sc.identifier].parts
                           /\ p.identifier \in DOMAIN cd.parts
                                => p.identifier \in elsewhere

\* C6: a reference naming a subchapter and no part adds the size attribute
\* of the first subchapter found on (subtitle->chapter->subchapter), then
\* (chapter->subchapter); when neither resolves it adds nothing and records
\* exactly one 'Subchapter not found'.
C6_SubchapterOwnSize ==
    [][(ValidStep /\ ~Truthy(ref'.part) /\ Truthy(ref'.subchapter)) =>
         LET first == FirstOf(SubchapterPaths(Used, ref'))
         IN IF Len(first) > 0
            THEN Added = first[1].size /\ NewErrors = <<>>
            ELSE Added = 0 /\ NewErrors = <<Diag(ref', "Subchapter not found")>>]_vars

\* The subchapter is indexed under both chapters and holds a part whose size
\* differs from its own; the subtitle-scoped subchapter's own size was added.
C6_Witness ==
    /\ n = 1 /\ ref.title.kind = "int"
    /\ ref.subtitle = "A" /\ ref.chapter = "I" /\ ref.subchapter = "S"
    /\ ~Truthy(ref.part)
    /\ "A" \in DOMAIN title_structures[1].subtitles
    /\ "I" \in DOMAIN title_structures[1].subtitles["A"].chapters
    /\ "I" \in DOMAIN title_structures[1].chapters
    /\ LET sc == title_structures[1].subtitles["A"].chapters["I"].subchapters
           tc == title_structures[1].chapters["I"].subchapters
       IN /\ "S" \in DOMAIN sc /\ "S" \in DOMAIN tc
          /\ sc["S"].size # tc["S"].size
          /\ "12" \in DOMAIN sc["S"].parts
          /\ sc["S"].parts["12"] # sc["S"].size
          /\ word_count = sc["S"].size
    /\ errors = <<>>

\* C7: a reference naming a chapter and neither part nor subchapter adds the
\* size of the chapter under the named subtitle when there is one, else of
\* the chapter directly under the title; when neither exists it adds nothing
\* and records 'Chapter not found'.
C7_ChapterLookup ==
    [][(ValidStep /\ ~Truthy(ref'.part) /\ ~Truthy(ref'.subchapter)
          /\ Truthy(ref'.chapter)) =>
         LET first == FirstOf(ChapterPaths(Used, ref'))
         IN IF Len(first) > 0
            THEN Added = first[1].size /\ NewErrors = <<>>
            ELSE Added = 0 /\ NewErrors = <<Diag(ref', "Chapter not found")>>]_vars

\* Scenario C: no subtitle named, the chapter exists under a subtitle and
\* directly under the title with different sizes; the title-direct size was
\* added.
C7_Witness ==
    /\ n = 1 /\ ref.title.kind = "int"
    /\ ~Truthy(ref.subtitle) /\ ref.chapter = "I"
    /\ ~Truthy(ref.subchapter) /\ ~Truthy(ref.part)
    /\ "A" \in DOMAIN title_structures[1].subtitles
    /\ "I" \in DOMAIN title_structures[1].subtitles["A"].chapters
    /\ "I" \in DOMAIN title_structures[1].chapters
    /\ title_structures[1].chapters["I"].size
         # title_structures[1].subtitles["A"].chapters["I"].size
    /\ word_count = title_structures[1].chapters["I"].size
    /\ errors = <<>>

\* A reference naming subtitle and chapter only, whose chapter is absent
\* under that subtitle.
ChapterMissingUnderSubtitle(idx, r) ==
    /\ Truthy(r.subtitle) /\ Truthy(r.chapter)
    /\ ~Truthy(r.subchapter) /\ ~Truthy(r.part)
    /\ Len(SubtitleChapter(idx, r)) = 0

\* C8 as stated: the chapter is absent under the named subtitle, so the
\* reference fails with 'Chapter not found' and adds nothing, also when the
\* chapter exists directly under the title.
C8_NoTitleDirectFallback ==
    [][(ValidStep /\ ChapterMissingUnderSubtitle(Used, ref')) =>
         /\ Added = 0
         /\ NewErrors = <<Diag(ref', "Chapter not found")>>]_vars

\* C8 amended: when the chapter is absent under the named subtitle the
\* title-direct chapter of the same identifier, if there is one, contributes
\* its size and nothing is recorded; 'Chapter not found' is recorded only
\* when the chapter is absent from the title-direct map as well.
C8_TitleDirectFallback ==
    [][(ValidStep /\ ChapterMissingUnderSubtitle(Used, ref')) =>
         IF ref'.chapter \in DOMAIN Used.chapters
         THEN Added = Used.chapters[ref'.chapter].size /\ NewErrors = <<>>
         ELSE Added = 0 /\ NewErrors = <<Diag(ref', "Chapter not found")>>]_vars

\* Subtitle and chapter are named, the subtitle is indexed without that
\* chapter, and the title-direct chapter's size was added.
C8_Witness ==
    /\ n = 1 /\ ref.title.kind = "int"
    /\ ChapterMissingUnderSubtitle(title_structures[1], ref)
    /\ ref.subtitle \in DOMAIN title_structures[1].subtitles
    /\ ref.chapter \in DOMAIN title_structures[1].chapters
    /\ title_structures[1].chapters[ref.chapter].size > 0
    /\ word_count = title_structures[1].chapters[ref.chapter].size
    /\ errors = <<>>

\* C9: every reference with an integer title and a subpart or a section
\* gets an 'unsupported level' record, whatever happened at the shallower
\* levels.
C9_UnsupportedAlwaysRecorded ==
    [][(ValidStep /\ (Truthy(ref'.subpart) \/ Truthy(ref'.section))) =>
         \E i \in 1..Len(NewErrors) :
            NewErrors[i] = Diag(ref', "Subpart or section not supported")]_vars

\* C10: a reference with an integer title and none of subtitle, chapter,
\* subchapter, part adds nothing; it records 'no usable field' and, when it
\* has a subpart or a section, a second separate 'unsupported level' record.
C10_EveryFailureRecorded ==
    [][(ValidStep /\ Deepest(ref') = "none") =>
         /\ Added = 0
         /\ NewErrors =
              IF Truthy(ref'.subpart) \/ Truthy(ref'.section)
              THEN << Diag(ref', "No valid subtitle or chapter specified"),
                      Diag(ref', "Subpart or section not supported") >>
              ELSE << Diag(ref', "No valid subtitle or chapter specified") >>]_vars

\* Scenario D: {title: 1, subpart: "b"} left two records and added nothing.
C10_Witness ==
    /\ n = 1 /\ ref.title.kind = "int"
    /\ Deepest(ref) = "none" /\ ref.subpart = "b"
    /\ word_count = 0
    /\ Len(errors) = 2
    /\ errors[1].error_message = "No valid subtitle or chapter specified"
    /\ errors[2].error_message = "Subpart or section not supported"
    /\ errors[1].cfr_reference = ref /\ errors[2].cfr_reference = ref

\* C16: a title whose fetch yielded the empty structure is handled as a
\* title whose identifiers are missing from the index: a reference to it
\* adds nothing and records the 'not found' diagnostic of its most specific
\* field, and no 'No structure data' record is ever written.
C16_FailedFetchIsNotFound ==
    [][ValidStep =>
         /\ \A i \in 1..Len(errors') : errors'[i].error_message # "No structure data"
         /\ (Len(raw[ref'.title.val].children) = 0 /\ Deepest(ref') # "none")
              => /\ Added = 0
                 /\ NewErrors = <<Diag(ref', NotFoundMsg(Deepest(ref')))>>]_vars

\* The fetch of title 1 yielded the empty structure, the cache holds its
\* empty index, and a reference naming a chapter got 'Chapter not found'.
C16_Witness ==
    /\ n = 1 /\ ref.title.kind = "int"
    /\ Len(raw[1].children) = 0
    /\ 1 \in DOMAIN title_structures
    /\ DOMAIN title_structures[1].subtitles = {}
    /\ DOMAIN title_structures[1].chapters = {}
    /\ fetches[1] = 1
    /\ Deepest(ref) = "Chapter"
    /\ word_count = 0
    /\ errors = <<Diag(ref, "Chapter not found")>>

(***************************************************************************)
(* Properties of the whole run.  A step that lengthens results is one call *)
(* of process_agency_and_children up to its loop over the children.        *)
(***************************************************************************)

VisitStep == Len(results') = Len(results) + 1

\* The agency a VisitStep processes and its reference list.
Visited == Top.kids[Top.i]

VisitedRefs == CfrReferences(Visited)

RECURSIVE SumSeq(_)
SumSeq(q) == IF Len(q) = 0 THEN 0 ELSE Head(q) + SumSeq(Tail(q))

\* The size of the most specific named level, when one of its paths
\* reaches it.
DeepestSize(idx, r) ==
    LET size(x) == <<x.size>>
    IN IF Deepest(r) = "Part" THEN FirstOf(PartPaths(idx, r))
       ELSE IF Deepest(r) = "Subchapter" THEN Then(FirstOf(SubchapterPaths(idx, r)), size)
       ELSE IF Deepest(r) = "Chapter" THEN Then(FirstOf(ChapterPaths(idx, r)), size)
       ELSE IF Deepest(r) = "Subtitle" THEN Then(Get(idx.subtitles, r.subtitle), size)
       ELSE <<>>

\* The size a reference resolves to against the index of its title built
\* from the tree the endpoint serves; <<>> when it fails.
RefSize(r) ==
    IF r.title.kind # "int" THEN <<>>
    ELSE DeepestSize(build_structure_dict(raw[r.title.val]), r)

Count(q, P(_)) == Cardinality({ i \in 1..Len(q) : P(q[i]) })

\* C11: every reference of the list is processed.  A failing reference
\* adds nothing and leaves at least one diagnostic, a resolving one adds its
\* size, and the returned total is the sum over the resolving references,
\* wherever in the list the failing ones stand.
C11_EveryReferenceProcessed ==
    [][VisitStep =>
         LET L == VisitedRefs
             contribution == [k \in 1..Len(L) |->
                                IF Len(RefSize(L[k])) > 0 THEN RefSize(L[k])[1] ELSE 0]
         IN /\ word_count' = SumSeq(contribution)
            /\ results'[Len(results')].word_count = SumSeq(contribution)
            /\ \A k \in 1..Len(L) :
                 Len(RefSize(L[k])) = 0 =>
                   LET same(x) == x = L[k]
                       about(e) == e.cfr_reference = L[k]
                                   /\ e.agency_name = DisplayName(Visited)
                   IN Count(NewErrors, about) >= Count(L, same)]_vars

\* A list whose first reference fails and whose second resolves to a
\* positive size: the diagnostic is there and the size was still added.
C11_Witness ==
    /\ Len(results) = 1
    /\ Len(results[1].cfr_references) = 2
    /\ LET L == results[1].cfr_references
       IN /\ Len(RefSize(L[1])) = 0
          /\ Len(RefSize(L[2])) > 0
          /\ RefSize(L[2])[1] > 0
          /\ word_count = RefSize(L[2])[1]
          /\ results[1].word_count = word_count
          /\ \E i \in 1..Len(errors) : errors[i].cfr_reference = L[1]

\* The permutations of a list.
Perms(L) ==
    LET I == 1..Len(L)
        bijections == { f \in [I -> I] : \A i, j \in I : f[i] = f[j] => i = j }
    IN { [i \in I |-> L[f[i]]] : f \in bijections }

\* C12: from the same cache, every permutation of the agency's reference
\* list yields the total the call returned.
C12_OrderIndependent ==
    [][VisitStep =>
         \A P \in Perms(VisitedRefs) :
            process_agency_cfr_references(P, CallState, DisplayName(Visited)).word_count
              = word_count']_vars

\* Two references of different positive sizes to two titles, of which one
\* was not preloaded, were summed.
C12_Witness ==
    /\ Len(results) = 1
    /\ Len(results[1].cfr_references) = 2
    /\ titles # RunTitles
    /\ LET L == results[1].cfr_references
       IN /\ L[1].title.kind = "int" /\ L[2].title.kind = "int"
          /\ L[1].title.val # L[2].title.val
          /\ Len(RefSize(L[1])) > 0 /\ Len(RefSize(L[2])) > 0
          /\ RefSize(L[1])[1] # RefSize(L[2])[1]
          /\ word_count = RefSize(L[1])[1] + RefSize(L[2])[1]

\* C13: an agency whose reference list is empty or absent gets total 0 and
\* exactly one 'No cfr_references provided' record; the title cache is left
\* unchanged and a result record with word_count 0 is appended.
C13_EmptyReferenceList ==
    [][(VisitStep /\ Len(VisitedRefs) = 0) =>
         /\ word_count' = 0
         /\ NewErrors = << [agency_name |-> DisplayName(Visited),
                            cfr_reference |-> EmptyRef,
                            error_message |-> "No cfr_references provided"] >>
         /\ title_structures' = title_structures
         /\ fetches' = fetches
         /\ results' = Append(results,
                [name |-> DisplayName(Visited), cfr_references |-> <<>>,
                 sub_agencies |-> Len(Children(Visited)), word_count |-> 0])]_vars

\* The first agency has no cfr_references key; it has its record with
\* word_count 0 and its one diagnostic.
C13_Witness ==
    /\ Len(results) = 1
    /\ "cfr_references" \notin DOMAIN agencies[1]
    /\ results[1].name = agencies[1].display_name
    /\ results[1].word_count = 0
    /\ Len(errors) = 1
    /\ errors[1].error_message = "No cfr_references provided"
    /\ errors[1].agency_name = agencies[1].display_name

\* The agencies of a forest in pre-order.
RECURSIVE PreOrder(_)
PreOrder(kids) ==
    IF Len(kids) = 0 THEN <<>>
    ELSE <<Head(kids)>> \o PreOrder(Children(Head(kids))) \o PreOrder(Tail(kids))

\* C14: records are only ever appended, and when the run is finished the
\* results list holds one record per agency, in pre-order (a parent before
\* its descendants, siblings in list order), each with the number of the
\* agency's direct children.
C14_PreOrderAppendOnly ==
    [][/\ Len(results') >= Len(results)
       /\ SubSeq(results', 1, Len(results)) = results
       /\ pc' = "finished" =>
            LET order == PreOrder(agencies)
            IN /\ Len(results') = Len(order)
               /\ \A k \in 1..Len(order) :
                    /\ results'[k].name = DisplayName(order[k])
                    /\ results'[k].sub_agencies = Len(Children(order[k]))
                    /\ results'[k].cfr_references = CfrReferences(order[k])]_vars

\* A finished run over a parent with a child and a grandchild followed by
\* a second top-level agency.
C14_Witness ==
    /\ pc = "finished"
    /\ Len(agencies) = 2
    /\ Len(Children(agencies[1])) = 1
    /\ Len(Children(agencies[1].children[1])) = 1
    /\ Len(results) = 4
    /\ results[1].name = "P" /\ results[2].name = "P1"
    /\ results[3].name = "P11" /\ results[4].name = "Q"
    /\ results[1].sub_agencies = 1 /\ results[4].sub_agencies = 0

\* C15: a cache entry, once written, is never written again, and its title
\* is never fetched again: every title is fetched at most once in a run, the
\* cache holds exactly the fetched titles, each with the index of what the
\* fetch returned, and every integer title a processed reference names is
\* cached.
C15_CacheWrittenOnce ==
    [][/\ \A t \in DOMAIN title_structures :
            /\ t \in DOMAIN title_structures'
            /\ title_structures'[t] = title_structures[t]
            /\ fetches'[t] = fetches[t]
       /\ DOMAIN fetches' = DOMAIN title_structures'
       /\ \A t \in DOMAIN fetches' :
            /\ fetches'[t] = 1
            /\ title_structures'[t] = build_structure_dict(raw[t])
       /\ VisitStep =>
            \A k \in 1..Len(VisitedRefs) :
               VisitedRefs[k].title.kind = "int"
                 => VisitedRefs[k].title.val \in DOMAIN title_structures']_vars

\* Title 2 was not preloaded and its fetch failed; two agencies referred to
\* it and it was fetched once.
C15_Witness ==
    /\ pc = "finished"
    /\ 2 \notin titles
    /\ Len(raw[2].children) = 0
    /\ 2 \in DOMAIN fetches /\ fetches[2] = 1
    /\ DOMAIN title_structures[2].subtitles = {}
    /\ \E i, j \in 1..Len(errors) :
         /\ errors[i].agency_name # errors[j].agency_name
         /\ errors[i].cfr_reference.title = IntTitle(2)
         /\ errors[j].cfr_reference.title = IntTitle(2)

(***************************************************************************)
(* Properties of parse_ancestry.                                           *)
(***************************************************************************)

\* The levels from the deepest to the shallowest.
LevelPriority ==
    <<"section", "subpart", "part", "subchapter", "chapter", "subtitle">>

\* The levels a reference names, deepest first, with the title last.
NamedLevels(r) ==
    SelectSeq(LevelPriority, LAMBDA l : PyTruthy(r[l])) \o <<"title">>

\* Positions of the ancestors of the given level whose identifier reads as
\* the reference's identifier for that level.
Matches(ancs, r, level) ==
    { k \in 1..Len(ancs) :
        ancs[k].type = level /\ ancs[k].identifier.text = r[level].text }

\* C17: parse_ancestry returns the size of the first ancestor matching the
\* single deepest level the reference names (section > subpart > part >
\* subchapter > chapter > subtitle > title) in type and identifier, and 0
\* when none matches, also when an ancestor matches a shallower level the
\* reference names.
C17_ExactMatchOnly ==
    (pc = "parsed" /\ Len(ancestors) > 0 /\ ~EmptyTuple(ref)) =>
        LET hit == Matches(ancestors, ref, NamedLevels(ref)[1])
        IN IF hit = {} THEN word_count = 0
           ELSE \E k \in hit : /\ \A j \in hit : k <= j
                               /\ word_count = ancestors[k].size

\* The reference names a part and a chapter; the list holds the chapter
\* with a positive size but no matching part, and the result is 0.
C17_Witness ==
    /\ pc = "parsed"
    /\ NamedLevels(ref)[1] = "part"
    /\ PyTruthy(ref.chapter)
    /\ Matches(ancestors, ref, "part") = {}
    /\ \E k \in Matches(ancestors, ref, "chapter") : ancestors[k].size > 0
    /\ word_count = 0

(***************************************************************************)
(* Properties of fetch_with_retries and fetch_title_structure.             *)
(***************************************************************************)

\* The requests that raised.
FailedRequests == { k \in 1..Len(outcomes) : outcomes[k] # "ok" }

\* C18: at most `retries` requests are issued and none after a success;
\* the time slept is the fixed delay once per failed attempt other than
\* the last of the budget; the failure is raised only when all `retries`
\* attempts failed; fetch_title_structure returns the tree of the first
\* success, and the empty structure when the failure was raised.
C18_RetryBudget ==
    /\ requests = Len(outcomes)
    /\ requests <= retries
    /\ \A k \in 1..(Len(outcomes) - 1) : k \in FailedRequests
    /\ slept = RETRY_DELAY * Cardinality({ k \in FailedRequests : k < retries })
    /\ pc = "raised" =>
          Len(outcomes) = retries /\ FailedRequests = 1..retries
    /\ pc = "returned" =>
          IF FailedRequests = 1..Len(outcomes)
          THEN Len(outcomes) = retries /\ DOMAIN response = {}
          ELSE response = raw[1]
    /\ pc \in {"fetch", "raised", "returned"}

\* The default budget is used up: three failed requests, two sleeps, and
\* fetch_title_structure has returned the empty structure.
C18_Witness ==
    /\ pc = "returned"
    /\ retries = RETRY_ATTEMPTS
    /\ Len(outcomes) = RETRY_ATTEMPTS
    /\ FailedRequests = 1..RETRY_ATTEMPTS
    /\ slept = (RETRY_ATTEMPTS - 1) * RETRY_DELAY
    /\ DOMAIN response = {}

====
